---------------------------- MODULE Spec2Model ----------------------------
(***************************************************************************)
(* A model of robolocopy (src/src/index.ts, src/src/utils.ts): the CLI      *)
(* action, copyFiles, useWindowsRobocopy, processExcludePatternsForRobocopy,*)
(* useNodeImplementation with its batched concurrent copy, shouldExclude    *)
(* and processExcludePatterns.                                              *)
(*                                                                         *)
(* Strings are TLA+ strings; TLC evaluates Len, SubSeq and \o on them, so   *)
(* the string functions of the source (split, trim, endsWith, includes,     *)
(* replace, slice, join) are computed character by character.               *)
(*                                                                         *)
(* A path is a string relative to its root, "/"-separated; "" is the root   *)
(* itself.  A tree is a function from the paths that exist to nodes         *)
(* [kind |-> "dir" | "file", content |-> string].                           *)
(***************************************************************************)
EXTENDS Integers, Sequences, FiniteSets, TLC

(***************************************************************************)
(* String functions of the JavaScript runtime, as the source uses them.    *)
(***************************************************************************)
CharAt(s, i) == SubSeq(s, i, i)

\* String.prototype.slice(from) / slice(0, to) with 1-based inclusive bounds
Slice(s, from, to) == IF from > to THEN "" ELSE SubSeq(s, from, to)

StartsWith(s, pre) ==
    /\ Len(pre) <= Len(s)
    /\ Slice(s, 1, Len(pre)) = pre

EndsWith(s, suf) ==
    /\ Len(suf) <= Len(s)
    /\ Slice(s, Len(s) - Len(suf) + 1, Len(s)) = suf

Includes(s, sub) ==
    \E i \in 1..(Len(s) - Len(sub) + 1) : Slice(s, i, i + Len(sub) - 1) = sub

RECURSIVE SplitFrom(_, _, _, _)
SplitFrom(s, sep, i, cur) ==
    IF i > Len(s) THEN <<cur>>
    ELSE IF CharAt(s, i) = sep
         THEN <<cur>> \o SplitFrom(s, sep, i + 1, "")
         ELSE SplitFrom(s, sep, i + 1, cur \o CharAt(s, i))

\* String.prototype.split(sep) for a one-character separator
Split(s, sep) == SplitFrom(s, sep, 1, "")

RECURSIVE Join(_, _)
Join(parts, sep) ==
    IF Len(parts) = 0 THEN ""
    ELSE IF Len(parts) = 1 THEN parts[1]
    ELSE parts[1] \o sep \o Join(Tail(parts), sep)

\* String.prototype.replace(/re/g, to) for a literal, non-empty `from`:
\* leftmost non-overlapping occurrences
RECURSIVE ReplaceAllFrom(_, _, _, _)
ReplaceAllFrom(s, from, to, i) ==
    IF i > Len(s) THEN ""
    ELSE IF i + Len(from) - 1 <= Len(s) /\ Slice(s, i, i + Len(from) - 1) = from
         THEN to \o ReplaceAllFrom(s, from, to, i + Len(from))
         ELSE CharAt(s, i) \o ReplaceAllFrom(s, from, to, i + 1)

ReplaceAll(s, from, to) == ReplaceAllFrom(s, from, to, 1)

WhiteSpace == {" ", "\t", "\n", "\r"}

RECURSIVE TrimStart(_)
TrimStart(s) ==
    IF Len(s) > 0 /\ CharAt(s, 1) \in WhiteSpace
    THEN TrimStart(Slice(s, 2, Len(s)))
    ELSE s

RECURSIVE TrimEnd(_)
TrimEnd(s) ==
    IF Len(s) > 0 /\ CharAt(s, Len(s)) \in WhiteSpace
    THEN TrimEnd(Slice(s, 1, Len(s) - 1))
    ELSE s

\* a mutant of Trim: only the leading white space is removed
Trim_StartOnly(s) == TrimStart(s)

\* String.prototype.trim()
Trim(s) == TrimEnd(TrimStart(s))

\* [...new Set(seq)]: the first occurrence of every element, in order
RECURSIVE Dedup(_)
Dedup(seq) ==
    IF Len(seq) = 0 THEN <<>>
    ELSE LET init == Dedup(SubSeq(seq, 1, Len(seq) - 1))
             last == seq[Len(seq)]
         IN  IF \E i \in 1..Len(init) : init[i] = last THEN init
             ELSE Append(init, last)

Range(seq) == {seq[i] : i \in 1..Len(seq)}

RECURSIVE SelectNonEmpty(_)
SelectNonEmpty(seq) ==
    IF Len(seq) = 0 THEN <<>>
    ELSE IF Head(seq) = "" THEN SelectNonEmpty(Tail(seq))
         ELSE <<Head(seq)>> \o SelectNonEmpty(Tail(seq))

(***************************************************************************)
(* src/src/utils.ts: processExcludePatterns                                *)
(***************************************************************************)
RECURSIVE TrimEach(_)
TrimEach(values) ==
    IF Len(values) = 0 THEN <<>>
    ELSE <<Trim(Head(values))>> \o TrimEach(Tail(values))

\* the inner loop: one option split on ",", every value trimmed, the
\* falsy (empty) ones dropped
OptionPatterns(option) == SelectNonEmpty(TrimEach(Split(option, ",")))

RECURSIVE processExcludePatterns(_)
processExcludePatterns(excludeOptions) ==
    IF Len(excludeOptions) = 0 THEN <<>>
    ELSE OptionPatterns(Head(excludeOptions))
            \o processExcludePatterns(Tail(excludeOptions))

(***************************************************************************)
(* minimatch(path, pattern, { dot: true }) as shouldExclude calls it, for  *)
(* the pattern language the program's defaults and examples use: literal   *)
(* characters, "?", "*", and "**" as a whole path portion.  Braces,         *)
(* negation, character classes and extglobs are outside the modelled        *)
(* fragment.                                                                *)
(***************************************************************************)
\* slashSplit: split on /\/+/ (a run of slashes separates once)
RECURSIVE CollapseSlashes(_)
CollapseSlashes(s) ==
    IF Len(s) < 2 THEN s
    ELSE IF CharAt(s, 1) = "/" /\ CharAt(s, 2) = "/"
         THEN CollapseSlashes(Slice(s, 2, Len(s)))
         ELSE CharAt(s, 1) \o CollapseSlashes(Slice(s, 2, Len(s)))

SlashSplit(s) == Split(CollapseSlashes(s), "/")

GLOBSTAR == "**"

HasMagic(p) == Includes(p, "*") \/ Includes(p, "?")

\* one path portion against one pattern portion that has wildcards:
\* "*" is [^/]*?, "?" is [^/]
RECURSIVE WildMatch(_, _, _, _)
WildMatch(f, i, p, j) ==
    IF j > Len(p) THEN i > Len(f)
    ELSE IF CharAt(p, j) = "*"
         THEN \/ WildMatch(f, i, p, j + 1)
              \/ (i <= Len(f) /\ WildMatch(f, i + 1, p, j))
         ELSE /\ i <= Len(f)
              /\ (CharAt(p, j) = "?" \/ CharAt(p, j) = CharAt(f, i))
              /\ WildMatch(f, i + 1, p, j + 1)

\* a string portion is compared literally, a portion with magic as its
\* regular expression; with dot: true a wildcard reaches names that start
\* with ".", but never "", "." or ".."
PortionMatch(f, p) ==
    IF HasMagic(p)
    THEN f \notin {"", ".", ".."} /\ WildMatch(f, 1, p, 1)
    ELSE f = p

\* Minimatch.matchOne(file, pattern, partial = false) with dot: true
RECURSIVE matchOne(_, _)
matchOne(file, pattern) ==
    IF Len(file) = 0 \/ Len(pattern) = 0
    THEN \* fell off the end of the file or of the pattern
         IF Len(file) = 0 /\ Len(pattern) = 0 THEN TRUE
         ELSE IF Len(file) = 0 THEN FALSE
         ELSE Len(file) = 1 /\ file[1] = ""
    ELSE IF pattern[1] = GLOBSTAR
         THEN IF Len(pattern) = 1
              THEN \* a ** at the end swallows the rest
                   \A k \in 1..Len(file) : file[k] \notin {".", ".."}
              ELSE \* swallow 0, 1, 2, ... portions, stopping at "." or ".."
                   \E k \in 0..(Len(file) - 1) :
                      /\ \A m \in 1..k : file[m] \notin {".", ".."}
                      /\ matchOne(SubSeq(file, k + 1, Len(file)), Tail(pattern))
         ELSE /\ PortionMatch(file[1], pattern[1])
              /\ matchOne(Tail(file), Tail(pattern))

\* adjacent ** portions are one (levelOneOptimize)
RECURSIVE CollapseGlobstars(_)
CollapseGlobstars(parts) ==
    IF Len(parts) < 2 THEN parts
    ELSE IF parts[1] = GLOBSTAR /\ parts[2] = GLOBSTAR
         THEN CollapseGlobstars(Tail(parts))
         ELSE <<parts[1]>> \o CollapseGlobstars(Tail(parts))

minimatch(path, pattern) ==
    IF pattern = "" THEN path = ""
    ELSE matchOne(SlashSplit(path), CollapseGlobstars(SlashSplit(pattern)))

(***************************************************************************)
(* src/src/index.ts                                                        *)
(***************************************************************************)
DEFAULT_EXCLUDE_PATTERNS ==
    << "node_modules/**", "dist/**", "build/**", "temp/**", "delete/**",
       "bin/**", "obj/**", "cache/**", "tmp/**", ".DS_Store", "coverage/**",
       ".cache/**", ".idea/**", "*.log" >>

\* a mutant of shouldExclude: the patterns are matched against the base name
shouldExclude_BaseName(filePath, excludePatterns) ==
    IF Len(excludePatterns) = 0 THEN FALSE
    ELSE LET normalizedPath == ReplaceAll(filePath, "\\", "/")
             parts == Split(normalizedPath, "/")
         IN  \E k \in 1..Len(excludePatterns) :
                minimatch(parts[Len(parts)],
                          ReplaceAll(excludePatterns[k], "\\", "/"))

shouldExclude(filePath, excludePatterns) ==
    IF Len(excludePatterns) = 0 THEN FALSE
    ELSE LET normalizedPath == ReplaceAll(filePath, "\\", "/")
         IN  \E k \in 1..Len(excludePatterns) :
                minimatch(normalizedPath,
                          ReplaceAll(excludePatterns[k], "\\", "/"))

\* one iteration of the loop over excludePatterns: the plan so far,
\* extended by what the pattern pushes
RobocopyStep(plan, pattern) ==
    LET normalizedPattern == ReplaceAll(pattern, "\\", "/")
        parts == Split(normalizedPattern, "/")
        filePattern == ReplaceAll(normalizedPattern, "**", "*")
        dir(d) == [plan EXCEPT !.dirExcludes = Append(@, d)]
        file(f) == [plan EXCEPT !.fileExcludes = Append(@, f)]
    IN  IF EndsWith(normalizedPattern, "/**")
        THEN dir(Slice(normalizedPattern, 1, Len(normalizedPattern) - 3))
        ELSE IF Includes(normalizedPattern, "/")
        THEN IF ~Includes(parts[Len(parts)], "*")
             THEN dir(Join(parts, "\\"))
             ELSE plan
        ELSE IF EndsWith(filePattern, "/")
        THEN dir(Slice(filePattern, 1, Len(filePattern) - 1))
        ELSE IF ~Includes(filePattern, "*") /\ ~Includes(filePattern, "?")
        THEN IF ~Includes(filePattern, ".")
             THEN dir(filePattern)
             ELSE file(filePattern)
        ELSE file(filePattern)

RECURSIVE RobocopyLoop(_, _)
RobocopyLoop(plan, excludePatterns) ==
    IF Len(excludePatterns) = 0 THEN plan
    ELSE RobocopyLoop(RobocopyStep(plan, Head(excludePatterns)),
                      Tail(excludePatterns))

\* a mutant of SafetyNets: the special handling is left out
SafetyNets_Skipped(dirs, excludePatterns, nets) == dirs

\* "Special handling for common patterns": the safety nets
RECURSIVE SafetyNets(_, _, _)
SafetyNets(dirs, excludePatterns, nets) ==
    IF Len(nets) = 0 THEN dirs
    ELSE LET net == Head(nets)
             hit == \E k \in 1..Len(excludePatterns) :
                       Includes(excludePatterns[k], net[1])
         IN  SafetyNets(IF hit THEN Append(dirs, net[2]) ELSE dirs,
                        excludePatterns, Tail(nets))

processExcludePatternsForRobocopy(excludePatterns) ==
    LET looped == RobocopyLoop([dirExcludes |-> <<>>, fileExcludes |-> <<>>],
                               excludePatterns)
        dirs == SafetyNets(looped.dirExcludes, excludePatterns,
                           << <<"node_modules", "node_modules">>,
                              <<"dist/", "dist">>,
                              <<"build/", "build">>,
                              <<".git", ".git">> >>)
    IN  [dirExcludes |-> Dedup(dirs), fileExcludes |-> Dedup(looped.fileExcludes)]

(***************************************************************************)
(* The file system, as fs-extra acts on it.                                *)
(***************************************************************************)
DirNode == [kind |-> "dir", content |-> ""]
FileNode(c) == [kind |-> "file", content |-> c]

\* path.dirname of an entry joined to its root, relative to that root
Dirname(p) ==
    LET parts == Split(p, "/")
    IN  IF Len(parts) <= 1 THEN ""
        ELSE Join(SubSeq(parts, 1, Len(parts) - 1), "/")

\* path.basename
Basename(p) == LET parts == Split(p, "/") IN parts[Len(parts)]

\* the root, every ancestor of p, and p
Prefixes(p) ==
    LET parts == Split(p, "/")
    IN  {""} \cup {Join(SubSeq(parts, 1, k), "/") : k \in 1..Len(parts)}

\* fs.ensureDir(p) fails when p or an ancestor exists and is no directory
CanEnsureDir(d, p) ==
    \A q \in Prefixes(p) : q \in DOMAIN d => d[q].kind = "dir"

\* fs.ensureDir(p): p and every missing ancestor become directories
EnsureDir(d, p) ==
    [q \in DOMAIN d \cup Prefixes(p) |-> IF q \in DOMAIN d THEN d[q] ELSE DirNode]

\* a mutant of CanCopyFile: the copy fails when the destination exists
CanCopyFile_ErrorOnExist(d, p) ==
    /\ CanEnsureDir(d, Dirname(p))
    /\ p \notin DOMAIN d

\* fs.copy(file, p) refuses to overwrite a directory with a file
CanCopyFile(d, p) ==
    /\ CanEnsureDir(d, Dirname(p))
    /\ p \in DOMAIN d => d[p].kind = "file"

\* fs.copy(file, p, { preserveTimestamps, errorOnExist: false }): the parent
\* is created, the file is written over whatever file was there
CopyFile(d, p, c) ==
    LET e == EnsureDir(d, Dirname(p))
    IN  [q \in DOMAIN e \cup {p} |-> IF q = p THEN FileNode(c) ELSE e[q]]

(***************************************************************************)
(* Inputs: the source trees, in the order fast-glob lists their entries,   *)
(* the raw --exclude tokens and the destinations a run starts from.        *)
(***************************************************************************)
Ent(p, k, c) == [path |-> p, kind |-> k, content |-> c]

\* test/index.test.ts, "should copy files while respecting exclude patterns"
TreeTest ==
    << Ent("file1.txt", "file", "test content"),
       Ent("file2.log", "file", "log content"),
       Ent("src", "dir", ""),
       Ent("src/code.ts", "file", "console.log"),
       Ent("dist", "dir", ""),
       Ent("dist/bundle.js", "file", "bundled code"),
       Ent("node_modules", "dir", ""),
       Ent("node_modules/package", "dir", ""),
       Ent("node_modules/package/index.js", "file", "module code") >>

\* test/index.test.ts, "should ignore default exclude patterns with -X flag"
TreeDashX ==
    << Ent("dist", "dir", ""),
       Ent("dist/bundle.js", "file", "bundled code"),
       Ent("file.log", "file", "log content") >>

\* test/index.test.ts, "should handle comma-separated exclude patterns"
TreeComma ==
    << Ent("file1.txt", "file", "test content"),
       Ent("file2.txt", "file", "test content 2"),
       Ent("file3.txt", "file", "test content 3") >>

\* a repository checkout: what README.md says is excluded by default
TreeRepo ==
    << Ent(".git", "dir", ""),
       Ent(".git/config", "file", "core"),
       Ent("yarn.lock", "file", "lock"),
       Ent("foo", "dir", ""),
       Ent("foo/dist", "dir", ""),
       Ent("foo/dist/x.js", "file", "nested"),
       Ent("dist", "dir", ""),
       Ent("dist/y.js", "file", "built") >>

NoDest == <<>>
EmptyDest == [q \in {""} |-> DirNode]
\* a destination where a stale regular file has the name of a source directory
StaleDest == [q \in {"", "src"} |-> IF q = "" THEN DirNode ELSE FileNode("stale")]

\* a destination that holds an older copy of a source file
OldDest == [q \in {"", "file2.txt"} |-> IF q = "" THEN DirNode ELSE FileNode("old")]

Case(t, k, raw, ign, d) ==
    [tree |-> t, inputKind |-> k, rawExclude |-> raw, ignoreDefaults |-> ign,
     dest |-> d]

\* the invocations the model starts from: the repository's tests, the
\* README's default list on a checkout, single files, a missing source
Cases ==
    {Case(TreeTest, "dir", <<>>, FALSE, d) : d \in {NoDest, EmptyDest, StaleDest}}
    \cup {Case(TreeDashX, "dir", <<>>, ign, EmptyDest) : ign \in BOOLEAN}
    \cup {Case(TreeComma, "dir", <<"file1.txt, file3.txt">>, ign, EmptyDest) :
            ign \in BOOLEAN}
    \cup {Case(TreeComma, "dir", <<"file1.txt, file3.txt">>, FALSE, OldDest)}
    \cup {Case(TreeDashX, "dir", <<"dist">>, TRUE, EmptyDest)}
    \cup {Case(TreeRepo, "dir", raw, FALSE, NoDest) :
            raw \in {<<>>, <<"dist/**,*.js">>}}
    \cup {Case(<<Ent("file2.log", "file", "log content")>>, "file", <<>>, ign,
               EmptyDest) : ign \in BOOLEAN}
    \cup {Case(<<Ent("notes.txt", "file", "notes")>>, "file", raw, FALSE, NoDest) :
            raw \in {<<>>, <<" notes.* ">>}}
    \cup {Case(<<Ent("dist/bundle.js", "file", "bundled code")>>, "file", <<>>,
               FALSE, EmptyDest)}
    \cup {Case(<<>>, "missing", <<>>, FALSE, d) : d \in {NoDest, EmptyDest}}

\* what execSync(robocopy ...) can do: the process exits with a status, is
\* ended by a signal (status null), cannot be spawned (the spawn error
\* carries status null), or the call throws an error that has no status
Exit(n) == [kind |-> "exit", n |-> n]
NativeOutcomes ==
    {Exit(n) : n \in {0, 7, 8, -1}}
        \cup {[kind |-> k, n |-> 0] : k \in {"signal", "spawnError", "noStatus"}}

(***************************************************************************)
(* Bounds of the model.  BATCH_SIZE is 100 in the source (index.ts:307);   *)
(* the model runs the same loop with a batch size small enough for the     *)
(* modelled trees to need several batches.                                 *)
(***************************************************************************)
BATCH_SIZE == 2
\* I/O operations made to fail by the environment (permissions, a vanished
\* source, a full disk), over all runs
MaxFailures == 1
\* invocations of the CLI on the same source, destination and options
MaxRuns == 2

VARIABLES
    tree,               \* the source tree's entries; <<>> when it is missing
    inputKind,          \* "dir", "file" or "missing": what inputPath names
    rawExclude,         \* options.exclude
    ignoreDefaults,     \* options.ignoreDefaults
    verbose,            \* options.verbose
    isWindows,          \* os.platform() === "win32"
    pc,                 \* where the run is
    excludePatterns,    \* copyOptions.excludePatterns
    allExcludePatterns, \* copyFiles' effective pattern set
    dest,               \* the tree at outputPath
    filteredEntries,    \* useNodeImplementation's filteredEntries
    batchStart,         \* the loop variable i of the batch loop
    tasks,              \* entry index -> state of its per-entry task
    copiedCount,        \* useNodeImplementation's copiedCount
    outcome,            \* how the CLI action ended
    native,             \* the calls of useWindowsRobocopy in this run
    nodeCalls,          \* the calls of useNodeImplementation in this run
    failures,           \* I/O failures the environment has injected
    ioFailed,           \* some I/O operation of this run failed
    runs,               \* the number of the current run
    prev,               \* how the previous run ended; prev.dest is the
                        \* destination the current run started from
    stdio               \* the stdio option of this run's execSync call

inputs == <<tree, inputKind, rawExclude, ignoreDefaults, verbose, isWindows>>
vars == <<tree, inputKind, rawExclude, ignoreDefaults, verbose, isWindows,
          pc, excludePatterns, allExcludePatterns, dest, filteredEntries,
          batchStart, tasks, copiedCount, outcome, native, nodeCalls,
          failures, ioFailed, runs, prev, stdio>>

inputPath == "source"
outputPath == "dest"

Running == [status |-> "running", message |-> "", exitCode |-> 0]
\* program.action: "Copy completed successfully", the process exits with 0
Completed == [status |-> "ok", message |-> "", exitCode |-> 0]
\* program.action's catch: the message is printed, process.exit(1)
Fatal(msg) == [status |-> "error", message |-> msg, exitCode |-> 1]

NoPrev == [ran |-> FALSE, dest |-> <<>>, portable |-> FALSE]

TreeNode(p) == LET k == CHOOSE k \in 1..Len(tree) : tree[k].path = p
               IN  tree[k]

\* fast-glob's ['**'] with dot: true, onlyFiles: false: every entry below
\* the root, directories included
Entries == [k \in 1..Len(tree) |-> tree[k].path]

Init ==
    /\ \E c \in Cases :
          /\ tree = c.tree
          /\ inputKind = c.inputKind
          /\ rawExclude = c.rawExclude
          /\ ignoreDefaults = c.ignoreDefaults
          /\ dest = c.dest
    /\ verbose \in BOOLEAN
    /\ isWindows \in BOOLEAN
    /\ pc = "cli"
    /\ excludePatterns = <<>>
    /\ allExcludePatterns = <<>>
    /\ filteredEntries = <<>>
    /\ batchStart = 0
    /\ tasks = <<>>
    /\ copiedCount = 0
    /\ outcome = Running
    /\ native = <<>>
    /\ nodeCalls = <<>>
    /\ failures = 0
    /\ ioFailed = FALSE
    /\ runs = 1
    /\ prev = [NoPrev EXCEPT !.dest = dest]
    /\ stdio = "none"

\* the environment may make one more I/O operation fail
MayInject == failures < MaxFailures

(***************************************************************************)
(* program.action, lines 56-66: the options are normalised and copyFiles   *)
(* is called.                                                              *)
(***************************************************************************)
CliAction ==
    /\ pc = "cli"
    /\ excludePatterns' = processExcludePatterns(rawExclude)
    /\ pc' = "access"
    /\ UNCHANGED <<inputs, allExcludePatterns, dest, filteredEntries,
                   batchStart, tasks, copiedCount, outcome, native, nodeCalls,
                   failures, ioFailed, runs, prev, stdio>>

\* a mutant of Access: the result of fs.access is not looked at
Access_Unchecked ==
    /\ pc = "access"
    /\ pc' = "ensureDest"
    /\ UNCHANGED <<inputs, excludePatterns, allExcludePatterns, dest,
                   filteredEntries, batchStart, tasks, copiedCount, outcome,
                   native, nodeCalls, failures, ioFailed, runs, prev, stdio>>

(***************************************************************************)
(* copyFiles, lines 84-89: fs.access(inputPath).                           *)
(***************************************************************************)
Access ==
    /\ pc = "access"
    /\ IF inputKind = "missing"
       THEN /\ pc' = "exit"
            /\ outcome' = Fatal("Source path does not exist: " \o inputPath)
            /\ ioFailed' = TRUE
       ELSE /\ pc' = "ensureDest"
            /\ UNCHANGED <<outcome, ioFailed>>
    /\ UNCHANGED <<inputs, excludePatterns, allExcludePatterns, dest,
                   filteredEntries, batchStart, tasks, copiedCount, native,
                   nodeCalls, failures, runs, prev, stdio>>

\* a mutant of CombinePatterns: ignoreDefaults is not honoured
CombinePatterns_AlwaysDefaults(ignore, patterns) ==
    DEFAULT_EXCLUDE_PATTERNS \o patterns

\* lines 95-97
CombinePatterns(ignore, patterns) ==
    IF ignore THEN patterns ELSE DEFAULT_EXCLUDE_PATTERNS \o patterns

\* a mutant of TryNative: robocopy is tried whatever the input is
TryNative_AnyInput(windows, directoryCopy) == windows

\* line 108: isWindows && isDirectoryCopy
TryNative(windows, directoryCopy) == windows /\ directoryCopy

(***************************************************************************)
(* copyFiles, lines 91-108: fs.ensureDir(outputPath), the effective        *)
(* patterns, fs.stat(inputPath) and the choice of the strategy.            *)
(***************************************************************************)
EnsureDest ==
    /\ pc = "ensureDest"
    /\ \/ /\ CanEnsureDir(dest, "")
          /\ dest' = EnsureDir(dest, "")
          /\ allExcludePatterns' = CombinePatterns(ignoreDefaults, excludePatterns)
          /\ pc' = IF TryNative(isWindows, inputKind = "dir")
                   THEN "robocopy" ELSE "node"
          /\ UNCHANGED <<outcome, failures, ioFailed>>
       \/ /\ MayInject
          /\ failures' = failures + 1
          /\ ioFailed' = TRUE
          /\ pc' = "exit"
          /\ outcome' = Fatal("ensureDir: permission denied")
          /\ UNCHANGED <<dest, allExcludePatterns>>
    /\ UNCHANGED <<inputs, excludePatterns, filteredEntries, batchStart, tasks,
                   copiedCount, native, nodeCalls, runs, prev, stdio>>

(***************************************************************************)
(* useWindowsRobocopy, lines 123-175.                                      *)
(***************************************************************************)
\* execSync returns when the process exited with status 0 and throws
\* otherwise
ExecSyncThrows(o) == ~(o.kind = "exit" /\ o.n = 0)

\* (error as { status?: number }).status: the exit status, null when a
\* signal ended the process or it could not be spawned, undefined when the
\* error has no such property
ErrorStatus(o) ==
    IF o.kind = "exit" THEN [type |-> "number", n |-> o.n]
    ELSE IF o.kind \in {"signal", "spawnError"} THEN [type |-> "null", n |-> 0]
    ELSE [type |-> "undefined", n |-> 0]

\* JavaScript's v <= m for a number m: null converts to 0, undefined to NaN
JsLessEq(v, m) ==
    IF v.type = "number" THEN v.n <= m
    ELSE IF v.type = "null" THEN 0 <= m
    ELSE FALSE

\* lines 163-174: TRUE when useWindowsRobocopy returns, FALSE when it throws
RobocopyReturns(o) ==
    IF ~ExecSyncThrows(o) THEN TRUE
    ELSE LET exitCode == ErrorStatus(o)
         IN  exitCode.type # "undefined" /\ JsLessEq(exitCode, 7)

\* robocopy's /XD and /XF: a directory is left out when its name or its
\* path is one of dirExcludes, a file when its name matches one of
\* fileExcludes or a directory above it is left out
DirLeftOut(p, plan) ==
    \E k \in 1..Len(plan.dirExcludes) :
        \/ PortionMatch(Basename(p), plan.dirExcludes[k])
        \/ ReplaceAll(p, "/", "\\") = plan.dirExcludes[k]

NativeLeavesOut(e, plan) ==
    \/ \E q \in Prefixes(Dirname(e.path)) \ {""} : DirLeftOut(q, plan)
    \/ e.kind = "dir" /\ DirLeftOut(e.path, plan)
    \/ /\ e.kind = "file"
       /\ \E k \in 1..Len(plan.fileExcludes) :
             PortionMatch(Basename(e.path), plan.fileExcludes[k])

\* robocopy source dest /E /XF ... /XD ...: what a run that copies leaves
\* at the destination
RECURSIVE RobocopyCopy(_, _, _)
RobocopyCopy(d, entries, plan) ==
    IF Len(entries) = 0 THEN d
    ELSE LET e == Head(entries)
             next == IF NativeLeavesOut(e, plan) THEN d
                     ELSE IF e.kind = "dir"
                          THEN IF CanEnsureDir(d, e.path)
                               THEN EnsureDir(d, e.path) ELSE d
                          ELSE IF CanCopyFile(d, e.path)
                               THEN CopyFile(d, e.path, e.content) ELSE d
         IN  RobocopyCopy(next, Tail(entries), plan)

\* robocopy's own convention: statuses 0..7 are runs that copied
NativeCopied(o) == o.kind = "exit" /\ o.n \in 0..7

\* a mutant of CatchRobocopy: the fallback is taken in verbose mode only
CatchRobocopy_OnlyVerbose(v) ==
    IF v THEN pc' = "node" /\ UNCHANGED outcome
    ELSE pc' = "exit" /\ outcome' = Fatal("robocopy failed")

\* copyFiles, lines 111-116: the error of useWindowsRobocopy is caught,
\* logged when verbose, and the run goes on to line 120
CatchRobocopy(v) == pc' = "node" /\ UNCHANGED outcome

\* line 165: { stdio: verbose ? "inherit" : "ignore" }
ExecSyncStdio(v) == IF v THEN "inherit" ELSE "ignore"

\* lines 123-175, called with the verbose flag v: execSync blocks until the
\* process has ended, so the whole function is one step; it returns (pc
\* "exit") or throws into the catch of copyFiles
useWindowsRobocopy(in, out, patterns, v) ==
    \E o \in NativeOutcomes :
        LET plan == processExcludePatternsForRobocopy(patterns)
            returns == RobocopyReturns(o)
        IN  /\ native' = Append(native, [outcome |-> o,
                                         inputPath |-> in,
                                         outputPath |-> out,
                                         excludePatterns |-> patterns,
                                         plan |-> plan,
                                         returned |-> returns])
            /\ dest' = IF NativeCopied(o) THEN RobocopyCopy(dest, tree, plan)
                       ELSE dest
            /\ IF returns
               THEN pc' = "exit" /\ outcome' = Completed
               ELSE CatchRobocopy(v)

\* copyFiles, lines 108-117, with the verbose flag v, but for the stdio
\* option the child process is started with
TryRobocopy(v) ==
    /\ pc = "robocopy"
    /\ useWindowsRobocopy(inputPath, outputPath, allExcludePatterns, v)
    /\ UNCHANGED <<inputs, excludePatterns, allExcludePatterns,
                   filteredEntries, batchStart, tasks, copiedCount, nodeCalls,
                   failures, ioFailed, runs, prev>>

\* copyFiles, lines 108-117
Robocopy ==
    /\ TryRobocopy(verbose)
    /\ stdio' = ExecSyncStdio(verbose)

(***************************************************************************)
(* useNodeImplementation, lines 254-348.                                   *)
(***************************************************************************)
\* line 300
FilterEntries(entries, patterns) ==
    LET Keep(e) == ~shouldExclude(e, patterns)
    IN  SelectSeq(entries, Keep)

\* a mutant of Batch: the slice starts one entry early
Batch_Overlap(i, n) == {k \in 1..n : i <= k /\ k <= i + BATCH_SIZE}

\* line 311: the indices of filteredEntries.slice(i, i + BATCH_SIZE)
Batch(i, n) == {k \in 1..n : i < k /\ k <= i + BATCH_SIZE}

\* batch.map(async (entry) => ...): every task of the batch is started and
\* waits for its fs.ensureDir(path.dirname(destPath))
StartBatch(i, n) == [k \in Batch(i, n) |-> "ensureParent"]

Settled(t) == t \in {"ok", "caught", "rejected"}
InFlight == {k \in DOMAIN tasks : ~Settled(tasks[k])}

\* a mutant of SingleFileName: the path as given stands for the file's name
SingleFileName_FullPath(p) == p

\* lines 264 and 268: filename = path.basename(inputPath), relativePath =
\* filename; p is the input path of a single-file copy
SingleFileName(p) == Basename(p)

\* lines 254-311 of useNodeImplementation, called with the verbose flag v,
\* up to the start of the first batch
useNodeImplementation(in, out, patterns, v) ==
    /\ nodeCalls' = Append(nodeCalls, [inputPath |-> in, outputPath |-> out,
                                       excludePatterns |-> patterns])
    /\ IF inputKind = "file"
       THEN /\ IF shouldExclude(SingleFileName(tree[1].path), patterns)
               THEN pc' = "exit" /\ outcome' = Completed
               ELSE pc' = "copyFile" /\ UNCHANGED outcome
            /\ UNCHANGED <<filteredEntries, batchStart, tasks, copiedCount>>
       ELSE LET filtered == FilterEntries(Entries, patterns)
            IN  /\ filteredEntries' = filtered
                /\ batchStart' = 0
                /\ copiedCount' = 0
                /\ IF Len(filtered) = 0
                   THEN /\ pc' = "exit"
                        /\ outcome' = Completed
                        /\ UNCHANGED tasks
                   ELSE /\ pc' = "batch"
                        /\ tasks' = StartBatch(0, Len(filtered))
                        /\ UNCHANGED outcome

\* a mutant of NodeStart: the fallback is given the user's patterns only
NodeStart_UserPatterns ==
    /\ pc = "node"
    /\ useNodeImplementation(inputPath, outputPath, excludePatterns, verbose)
    /\ UNCHANGED <<inputs, excludePatterns, allExcludePatterns, dest, native,
                   failures, ioFailed, runs, prev, stdio>>

\* copyFiles, line 120, with the verbose flag v
StartNode(v) ==
    /\ pc = "node"
    /\ useNodeImplementation(inputPath, outputPath, allExcludePatterns, v)
    /\ UNCHANGED <<inputs, excludePatterns, allExcludePatterns, dest, native,
                   failures, ioFailed, runs, prev, stdio>>

\* copyFiles, line 120
NodeStart == StartNode(verbose)

\* line 276: await fs.copy(inputPath, destFilePath) of a single file
CopySingleFile ==
    /\ pc = "copyFile"
    /\ LET f == tree[1]
           filename == SingleFileName(f.path)
       IN  \/ /\ CanCopyFile(dest, filename)
              /\ dest' = CopyFile(dest, filename, f.content)
              /\ outcome' = Completed
              /\ UNCHANGED <<failures, ioFailed>>
           \/ /\ \/ ~CanCopyFile(dest, filename) /\ UNCHANGED failures
                 \/ MayInject /\ failures' = failures + 1
              /\ ioFailed' = TRUE
              /\ outcome' = Fatal("copy: " \o filename)
              /\ UNCHANGED dest
    /\ pc' = "exit"
    /\ UNCHANGED <<inputs, excludePatterns, allExcludePatterns,
                   filteredEntries, batchStart, tasks, copiedCount, native,
                   nodeCalls, runs, prev, stdio>>

(***************************************************************************)
(* The per-entry task of a batch, lines 313-341.  Each await is a step:    *)
(* the I/O operation takes effect and the task runs on to its next await.  *)
(***************************************************************************)
\* Promise.all rejects as soon as one task rejects; the rejection unwinds
\* useNodeImplementation, copyFiles and the action's try in microtasks,
\* before any other I/O completion is handled
RejectAll(msg) ==
    /\ pc' = "exit"
    /\ outcome' = Fatal(msg)

\* line 318: await fs.ensureDir(path.dirname(destPath)), outside the try
TaskEnsureParent(k) ==
    /\ pc = "batch"
    /\ k \in DOMAIN tasks
    /\ tasks[k] = "ensureParent"
    /\ LET parent == Dirname(filteredEntries[k])
       IN  \/ /\ CanEnsureDir(dest, parent)
              /\ dest' = EnsureDir(dest, parent)
              /\ tasks' = [tasks EXCEPT ![k] = "stat"]
              /\ UNCHANGED <<pc, outcome, failures, ioFailed>>
           \/ /\ \/ ~CanEnsureDir(dest, parent) /\ UNCHANGED failures
                 \/ MayInject /\ failures' = failures + 1
              /\ ioFailed' = TRUE
              /\ tasks' = [tasks EXCEPT ![k] = "rejected"]
              /\ RejectAll("ensureDir: " \o parent)
              /\ UNCHANGED dest
    /\ UNCHANGED <<inputs, excludePatterns, allExcludePatterns,
                   filteredEntries, batchStart, copiedCount, native, nodeCalls,
                   runs, prev, stdio>>

\* line 321: await fs.stat(sourcePath), inside the try
TaskStat(k) ==
    /\ pc = "batch"
    /\ k \in DOMAIN tasks
    /\ tasks[k] = "stat"
    /\ \/ /\ tasks' = [tasks EXCEPT ![k] = "op"]
          /\ UNCHANGED <<failures, ioFailed>>
       \/ /\ MayInject
          /\ failures' = failures + 1
          /\ ioFailed' = TRUE
          /\ tasks' = [tasks EXCEPT ![k] = "caught"]
    /\ UNCHANGED <<inputs, pc, excludePatterns, allExcludePatterns, dest,
                   filteredEntries, batchStart, copiedCount, outcome, native,
                   nodeCalls, runs, prev, stdio>>

\* lines 323-340: await fs.ensureDir(destPath) or await fs.copy(...), then
\* copiedCount++; an error is caught and logged
TaskOp(k) ==
    /\ pc = "batch"
    /\ k \in DOMAIN tasks
    /\ tasks[k] = "op"
    /\ LET entry == filteredEntries[k]
           stats == TreeNode(entry)
           can == IF stats.kind = "dir" THEN CanEnsureDir(dest, entry)
                  ELSE CanCopyFile(dest, entry)
       IN  \/ /\ can
              /\ dest' = IF stats.kind = "dir" THEN EnsureDir(dest, entry)
                         ELSE CopyFile(dest, entry, stats.content)
              /\ copiedCount' = copiedCount + 1
              /\ tasks' = [tasks EXCEPT ![k] = "ok"]
              /\ UNCHANGED <<failures, ioFailed>>
           \/ /\ \/ ~can /\ UNCHANGED failures
                 \/ MayInject /\ failures' = failures + 1
              /\ ioFailed' = TRUE
              /\ tasks' = [tasks EXCEPT ![k] = "caught"]
              /\ UNCHANGED <<dest, copiedCount>>
    /\ UNCHANGED <<inputs, pc, excludePatterns, allExcludePatterns,
                   filteredEntries, batchStart, outcome, native, nodeCalls,
                   runs, prev, stdio>>

\* a mutant of BatchFulfilled: the loop goes on when one task has fulfilled
BatchFulfilled_Any(i) ==
    \E k \in Batch(i, Len(filteredEntries)) : tasks[k] \in {"ok", "caught"}

\* await Promise.all(...) of the batch at i resumes: every task fulfilled
BatchFulfilled(i) ==
    \A k \in Batch(i, Len(filteredEntries)) : tasks[k] \in {"ok", "caught"}

\* lines 310-312 and 343-348: the loop goes on to the next batch, or
\* useNodeImplementation and copyFiles return
BatchSettle ==
    /\ pc = "batch"
    /\ BatchFulfilled(batchStart)
    /\ batchStart' = batchStart + BATCH_SIZE
    /\ IF batchStart' < Len(filteredEntries)
       THEN /\ tasks' = StartBatch(batchStart', Len(filteredEntries)) @@ tasks
            /\ UNCHANGED <<pc, outcome>>
       ELSE /\ pc' = "exit"
            /\ outcome' = Completed
            /\ UNCHANGED tasks
    /\ UNCHANGED <<inputs, excludePatterns, allExcludePatterns, dest,
                   filteredEntries, copiedCount, native, nodeCalls, failures,
                   ioFailed, runs, prev, stdio>>

(***************************************************************************)
(* After a run that completed with no I/O failure the CLI is invoked again  *)
(* on the same source, destination and options.                            *)
(***************************************************************************)
Rerun ==
    /\ pc = "exit"
    /\ outcome.status = "ok"
    /\ ~ioFailed
    /\ runs < MaxRuns
    /\ runs' = runs + 1
    /\ prev' = [ran |-> TRUE, dest |-> dest,
                portable |-> Len(nodeCalls) > 0]
    /\ pc' = "cli"
    /\ excludePatterns' = <<>>
    /\ allExcludePatterns' = <<>>
    /\ filteredEntries' = <<>>
    /\ batchStart' = 0
    /\ tasks' = <<>>
    /\ copiedCount' = 0
    /\ outcome' = Running
    /\ native' = <<>>
    /\ nodeCalls' = <<>>
    /\ ioFailed' = FALSE
    /\ stdio' = "none"
    /\ UNCHANGED <<inputs, dest, failures>>

Next ==
    \/ CliAction
    \/ Access
    \/ EnsureDest
    \/ Robocopy
    \/ NodeStart
    \/ CopySingleFile
    \/ \E k \in DOMAIN tasks : TaskEnsureParent(k)
    \/ \E k \in DOMAIN tasks : TaskStat(k)
    \/ \E k \in DOMAIN tasks : TaskOp(k)
    \/ BatchSettle
    \/ Rerun

Spec == Init /\ [][Next]_vars

(***************************************************************************)
(* processExcludePatterns on its own: every list of raw tokens over a      *)
(* small alphabet, up to MaxTokens tokens and MaxRawLen characters in all, *)
(* handed to the CLI action, which normalises it.                          *)
(***************************************************************************)
MaxTokens == 2
MaxRawLen == 4
Alphabet == {"a", "b", " ", ","}

RECURSIVE Strs(_)
Strs(n) == IF n = 0 THEN {""}
           ELSE {s \o c : s \in Strs(n - 1), c \in Alphabet}

RECURSIVE RawLists(_, _)
RawLists(k, budget) ==
    {<<>>} \cup
    (IF k = 0 THEN {}
     ELSE UNION { UNION { {<<t>> \o r : r \in RawLists(k - 1, budget - n)} :
                          t \in Strs(n) } : n \in 0..budget })

InitNorm ==
    /\ rawExclude \in RawLists(MaxTokens, MaxRawLen)
    /\ tree = <<>>
    /\ inputKind = "missing"
    /\ ignoreDefaults = FALSE
    /\ verbose = FALSE
    /\ isWindows = FALSE
    /\ dest = NoDest
    /\ pc = "cli"
    /\ excludePatterns = <<>>
    /\ allExcludePatterns = <<>>
    /\ filteredEntries = <<>>
    /\ batchStart = 0
    /\ tasks = <<>>
    /\ copiedCount = 0
    /\ outcome = Running
    /\ native = <<>>
    /\ nodeCalls = <<>>
    /\ failures = 0
    /\ ioFailed = FALSE
    /\ runs = 1
    /\ prev = NoPrev
    /\ stdio = "none"

NextNorm == CliAction

SpecNorm == InitNorm /\ [][NextNorm]_vars

(***************************************************************************)
(* processExcludePatternsForRobocopy on its own: the CLI is given -X and    *)
(* one --exclude token per pattern, on a platform where robocopy is tried,  *)
(* so that the list handed to useWindowsRobocopy is the list of the tokens. *)
(* The patterns are every string of up to MaxPatLen characters over         *)
(* PatAlphabet, and the lists the program's defaults, README and the        *)
(* special handling of lines 233-245 speak of.                              *)
(***************************************************************************)
MaxPatLen == 4
PatAlphabet == {"a", "/", "*", ".", "\\"}

RECURSIVE PatStrs(_)
PatStrs(n) == IF n = 0 THEN {""}
              ELSE {s \o c : s \in PatStrs(n - 1), c \in PatAlphabet}

PlanInputs ==
    {<<pat>> : pat \in UNION {PatStrs(n) : n \in 1..MaxPatLen}}
    \cup { <<"node_modules/**">>, DEFAULT_EXCLUDE_PATTERNS,
           <<".git/**", ".vscode/**", "*.lock", "*.tgz", "*.tar.gz">>,
           <<"foo/">>, <<"temp/**", "foo/">>, <<"my_node_modules">>,
           <<"src/dist/x">>, <<"build/*.o">>, <<".gitignore">>,
           <<"src\\gen/**">>, <<"LICENSE", "*.md">> }

\* a source tree whose names the generated patterns can match
TreePlan ==
    << Ent("a", "dir", ""),
       Ent("a/a", "file", "1"),
       Ent("a/.a", "file", "2"),
       Ent("a.a", "file", "3"),
       Ent(".a", "dir", ""),
       Ent(".a/a", "file", "4"),
       Ent("aa", "dir", ""),
       Ent("aa/a", "dir", ""),
       Ent("aa/a/a.a", "file", "5") >>

InitPlan ==
    /\ rawExclude \in PlanInputs
    /\ ignoreDefaults = TRUE
    /\ tree = TreePlan
    /\ inputKind = "dir"
    /\ verbose = FALSE
    /\ isWindows = TRUE
    /\ dest = EmptyDest
    /\ pc = "cli"
    /\ excludePatterns = <<>>
    /\ allExcludePatterns = <<>>
    /\ filteredEntries = <<>>
    /\ batchStart = 0
    /\ tasks = <<>>
    /\ copiedCount = 0
    /\ outcome = Running
    /\ native = <<>>
    /\ nodeCalls = <<>>
    /\ failures = 0
    /\ ioFailed = FALSE
    /\ runs = 1
    /\ prev = [NoPrev EXCEPT !.dest = dest]
    /\ stdio = "none"

\* the run up to the end of useWindowsRobocopy
NextPlan ==
    \/ CliAction
    \/ Access
    \/ EnsureDest
    \/ Robocopy

SpecPlan == InitPlan /\ [][NextPlan]_vars

(***************************************************************************)
(* Properties.                                                             *)
(***************************************************************************)
\* p is the directory d or lies below it
AtOrUnder(p, d) == p = d \/ StartsWith(p, d \o "/")

\* the run has ended successfully, went through useNodeImplementation and
\* no I/O operation failed
CleanPortableExit ==
    /\ pc = "exit"
    /\ outcome.status = "ok"
    /\ ~ioFailed
    /\ Len(nodeCalls) > 0

\* C1: a directory copy through the portable path with the default patterns
\* active, into an empty destination: of the test's tree, file1.txt and
\* src/code.ts arrive with their content and no path named dist,
\* node_modules or file2.log exists; for every default pattern D/** neither
\* D nor anything below D exists in the destination.
C1_ExcludedDirsAbsent ==
    (CleanPortableExit /\ runs = 1 /\ inputKind = "dir" /\ ~ignoreDefaults) =>
        /\ tree = TreeTest =>
              /\ "file1.txt" \in DOMAIN dest
              /\ dest["file1.txt"] = FileNode("test content")
              /\ "src/code.ts" \in DOMAIN dest
              /\ dest["src/code.ts"] = FileNode("console.log")
              /\ \A p \in DOMAIN dest :
                    /\ ~AtOrUnder(p, "dist")
                    /\ ~AtOrUnder(p, "node_modules")
                    /\ p # "file2.log"
        /\ \A k \in 1..Len(DEFAULT_EXCLUDE_PATTERNS) :
              LET pat == DEFAULT_EXCLUDE_PATTERNS[k]
              IN  EndsWith(pat, "/**") =>
                     \A p \in DOMAIN dest :
                        ~AtOrUnder(p, Slice(pat, 1, Len(pat) - 3))

\* C2: in the batched copy a failure of any per-entry step is caught: the
\* run ends without an error, and every filtered entry's task was started
\* and has settled by fulfilling.
C2_PerEntryFailureCaught ==
    (pc = "exit" /\ tasks # <<>>) =>
        /\ outcome.status = "ok"
        /\ DOMAIN tasks = 1..Len(filteredEntries)
        /\ \A k \in DOMAIN tasks : tasks[k] \in {"ok", "caught"}

\* C3: useWindowsRobocopy returns if and only if the process ran and exited
\* with a status in 0..7; every other outcome raises.
C3_SuccessIffStatus0to7 ==
    \A k \in 1..Len(native) :
        native[k].returned <=>
            (native[k].outcome.kind = "exit" /\ native[k].outcome.n \in 0..7)

\* C4: when the native attempt raised, useNodeImplementation is run exactly
\* once, with the input path, output path and pattern set the native attempt
\* was given, and the run fails only if the portable copy itself failed.
C4_FallbackOnce ==
    (\E k \in 1..Len(native) : ~native[k].returned) =>
        /\ Len(native) = 1
        /\ pc \in {"node", "batch", "exit"}
        /\ Len(nodeCalls) = (IF pc = "node" THEN 0 ELSE 1)
        /\ \A j \in 1..Len(nodeCalls) :
              /\ nodeCalls[j].inputPath = native[1].inputPath
              /\ nodeCalls[j].outputPath = native[1].outputPath
              /\ nodeCalls[j].excludePatterns = native[1].excludePatterns
              /\ nodeCalls[j].excludePatterns = allExcludePatterns
        /\ outcome.status = "error" =>
              \E t \in DOMAIN tasks : tasks[t] = "rejected"

C4_Witness ==
    /\ pc = "exit"
    /\ outcome.status = "ok"
    /\ Len(native) = 1
    /\ ~native[1].returned
    /\ Len(nodeCalls) = 1
    /\ tree = TreeTest
    /\ "src/code.ts" \in DOMAIN dest

\* C5: when the source path does not exist the run fails with "Source path
\* does not exist" and exit code 1, the destination is never created or
\* modified and neither copy strategy is invoked.
C5_MissingSourceNoWork ==
    /\ [](inputKind = "missing" =>
            /\ native = <<>>
            /\ nodeCalls = <<>>
            /\ tasks = <<>>
            /\ pc \in {"cli", "access", "exit"}
            /\ pc = "exit" =>
                  /\ outcome.status = "error"
                  /\ outcome.exitCode = 1
                  /\ StartsWith(outcome.message, "Source path does not exist"))
    /\ [][inputKind = "missing" => dest' = dest]_vars

C5_Witness ==
    /\ inputKind = "missing"
    /\ pc = "exit"
    /\ outcome.exitCode = 1
    /\ dest = NoDest

\* copyFiles has passed line 97
PatternsBuilt ==
    \/ pc \in {"robocopy", "node", "copyFile", "batch"}
    \/ Len(native) > 0
    \/ Len(nodeCalls) > 0

\* C6: the effective pattern set is the defaults followed by the user's
\* patterns, or the user's patterns alone under ignoreDefaults, and both
\* strategies are given it; with ignoreDefaults and no user pattern nothing
\* is filtered and every entry of the source is copied.
C6_EffectivePatterns ==
    /\ PatternsBuilt =>
          allExcludePatterns =
              (IF ignoreDefaults THEN excludePatterns
               ELSE DEFAULT_EXCLUDE_PATTERNS \o excludePatterns)
    /\ \A k \in 1..Len(native) :
          native[k].excludePatterns = allExcludePatterns
    /\ \A k \in 1..Len(nodeCalls) :
          nodeCalls[k].excludePatterns = allExcludePatterns
    /\ (ignoreDefaults /\ excludePatterns = <<>> /\ inputKind = "dir") =>
          /\ pc = "batch" => filteredEntries = Entries
          /\ CleanPortableExit =>
                \A k \in 1..Len(tree) :
                   /\ tree[k].path \in DOMAIN dest
                   /\ dest[tree[k].path] =
                         [kind |-> tree[k].kind, content |-> tree[k].content]

C6_Witness ==
    /\ CleanPortableExit
    /\ ignoreDefaults
    /\ excludePatterns = <<>>
    /\ tree = TreeDashX
    /\ "dist/bundle.js" \in DOMAIN dest
    /\ "file.log" \in DOMAIN dest

\* the comma-separated pieces of a token, stated by position: the cuts are
\* the places of the commas and the two ends, a piece lies between two
\* neighbouring cuts
CommaCuts(t) ==
    {0} \cup {i \in 1..Len(t) : CharAt(t, i) = ","} \cup {Len(t) + 1}

NthCut(t, n) ==
    CHOOSE c \in CommaCuts(t) : Cardinality({d \in CommaCuts(t) : d < c}) = n - 1

PieceAt(t, n) == Slice(t, NthCut(t, n) + 1, NthCut(t, n + 1) - 1)

\* a piece without the white space around it: from its first to its last
\* character that is no white space
Stripped(piece) ==
    LET solid == {i \in 1..Len(piece) : CharAt(piece, i) \notin WhiteSpace}
    IN  IF solid = {} THEN ""
        ELSE Slice(piece,
                   CHOOSE i \in solid : \A j \in solid : i <= j,
                   CHOOSE i \in solid : \A j \in solid : j <= i)

\* <<token, piece>> for every piece of raw that is not empty once stripped
KeptPieces(raw) ==
    {x \in UNION {{<<ti, n>> : n \in 1..(Cardinality(CommaCuts(raw[ti])) - 1)} :
                  ti \in 1..Len(raw)} :
        Stripped(PieceAt(raw[x[1]], x[2])) # ""}

Before(x, y) == x[1] < y[1] \/ (x[1] = y[1] /\ x[2] < y[2])

\* C7: processExcludePatterns returns exactly the non-empty trimmed pieces
\* of the tokens split on ",", in encounter order; no element is empty or
\* has white space at either end; the empty input gives the empty output.
C7_NormalizeExact ==
    pc # "cli" =>
        LET raw == rawExclude
            out == excludePatterns
            kept == KeptPieces(raw)
        IN  /\ Len(out) = Cardinality(kept)
            /\ \A x \in kept :
                  out[Cardinality({y \in kept : Before(y, x)}) + 1]
                      = Stripped(PieceAt(raw[x[1]], x[2]))
            /\ \A k \in 1..Len(out) :
                  /\ out[k] # ""
                  /\ CharAt(out[k], 1) \notin WhiteSpace
                  /\ CharAt(out[k], Len(out[k])) \notin WhiteSpace
                  /\ ~Includes(out[k], ",")
            /\ raw = <<>> => out = <<>>

C7_Witness ==
    /\ pc # "cli"
    /\ rawExclude = <<" a,", "b">>
    /\ excludePatterns = <<"a", "b">>

\* README.md, "Default Exclude Patterns"
README_DEFAULT_PATTERNS ==
    << "node_modules/**", "dist/**", "build/**", "temp/**", "delete/**",
       "tmp/**", ".git/**", ".DS_Store", "coverage/**", ".cache/**",
       ".idea/**", ".vscode/**", "*.log", "*.lock", "*.tgz", "*.tar.gz" >>

\* C8: unless the defaults are disabled, every pattern the README lists as
\* excluded by default is in the effective pattern set, and a directory copy
\* leaves nothing from under .git/ or .vscode/ and no top-level *.lock,
\* *.tgz or *.tar.gz file at the destination.
C8_ReadmeDefaultsActive ==
    /\ (PatternsBuilt /\ ~ignoreDefaults) =>
          \A k \in 1..Len(README_DEFAULT_PATTERNS) :
             README_DEFAULT_PATTERNS[k] \in Range(allExcludePatterns)
    /\ (CleanPortableExit /\ runs = 1 /\ inputKind = "dir" /\ ~ignoreDefaults) =>
          \A p \in DOMAIN dest :
             /\ ~StartsWith(p, ".git/")
             /\ ~StartsWith(p, ".vscode/")
             /\ ~Includes(p, "/") =>
                   /\ ~EndsWith(p, ".lock")
                   /\ ~EndsWith(p, ".tgz")
                   /\ ~EndsWith(p, ".tar.gz")

\* C9: a second run of the portable copy on the same source, destination
\* and options, with no I/O failure, ends without an error, meets no failure
\* from what the first run left, and leaves the destination as the first
\* run left it.
C9_SecondRunIdempotent ==
    (pc = "exit" /\ runs >= 2 /\ prev.portable /\ Len(nodeCalls) > 0
        /\ failures = 0) =>
        /\ outcome.status = "ok"
        /\ ~ioFailed
        /\ dest = prev.dest

C9_Witness ==
    /\ pc = "exit"
    /\ runs = 2
    /\ prev.portable
    /\ Len(nodeCalls) > 0
    /\ failures = 0
    /\ tree = TreeTest
    /\ copiedCount = Len(filteredEntries)
    /\ "src/code.ts" \in DOMAIN dest
    /\ dest = prev.dest

BatchNo(k) == (k - 1) \div BATCH_SIZE

\* C10: batches run in sequence: a task of a later batch exists only when
\* every task of every earlier batch has settled, so the tasks in flight
\* are at most BATCH_SIZE and all of one batch.
C10_BatchesSequential ==
    /\ Cardinality(InFlight) <= BATCH_SIZE
    /\ \A j \in InFlight : \A k \in InFlight : BatchNo(j) = BatchNo(k)
    /\ \A j \in DOMAIN tasks : \A k \in DOMAIN tasks :
          BatchNo(j) < BatchNo(k) => Settled(tasks[j])

C10_Witness ==
    /\ pc = "batch"
    /\ batchStart > 0
    /\ Cardinality(InFlight) = BATCH_SIZE
    /\ \E j \in DOMAIN tasks : tasks[j] = "caught"

\* C11: when the input path is a file the native accelerator is never
\* invoked, also where it is available; the file is copied to
\* outputPath/basename if and only if no pattern of the effective set matches
\* its base name; when the base name is excluded nothing is copied and the
\* run completes without an error.
C11_SingleFileByBasename ==
    inputKind = "file" =>
        /\ native = <<>>
        /\ pc # "robocopy"
        /\ (pc = "exit" /\ Len(nodeCalls) > 0) =>
              LET name == Basename(tree[1].path)
                  excluded == \E k \in 1..Len(allExcludePatterns) :
                                  minimatch(name, allExcludePatterns[k])
              IN  IF excluded
                  THEN /\ outcome.status = "ok"
                       /\ ~ioFailed
                       /\ DOMAIN dest = {""}
                  ELSE ~ioFailed =>
                          /\ outcome.status = "ok"
                          /\ DOMAIN dest = {"", name}
                          /\ dest[name] = FileNode(tree[1].content)

C11_Witness ==
    /\ inputKind = "file"
    /\ isWindows
    /\ ~ignoreDefaults
    /\ tree[1].path = "dist/bundle.js"
    /\ pc = "exit"
    /\ outcome.status = "ok"
    /\ "bundle.js" \in DOMAIN dest
    /\ dest["bundle.js"] = FileNode("bundled code")

\* useNodeImplementation has just passed line 300: no task has taken a step
JustFiltered ==
    /\ inputKind = "dir"
    /\ Len(nodeCalls) > 0
    /\ \A k \in DOMAIN tasks : tasks[k] = "ensureParent"
    /\ batchStart = 0

\* C12: in the portable directory copy an entry is filtered out if and only
\* if some pattern of the effective set matches its whole root-relative
\* path: dist/** filters every entry under the top-level dist and none under
\* a nested foo/dist, which are copied.
C12_WholePathFilter ==
    /\ JustFiltered =>
          \A k \in 1..Len(tree) :
             (tree[k].path \in Range(filteredEntries)) <=>
                 ~\E j \in 1..Len(allExcludePatterns) :
                     minimatch(tree[k].path, allExcludePatterns[j])
    /\ (inputKind = "dir" /\ Len(nodeCalls) > 0) =>
          /\ "dist/**" \in Range(allExcludePatterns) =>
                /\ \A k \in 1..Len(tree) :
                      StartsWith(tree[k].path, "dist/") =>
                          tree[k].path \notin Range(filteredEntries)
                /\ \A p \in DOMAIN dest : ~StartsWith(p, "dist/")
          /\ \A k \in 1..Len(tree) :
                StartsWith(tree[k].path, "foo/dist") =>
                    /\ tree[k].path \in Range(filteredEntries)
                    /\ CleanPortableExit =>
                          /\ tree[k].path \in DOMAIN dest
                          /\ dest[tree[k].path] =
                                [kind |-> tree[k].kind,
                                 content |-> tree[k].content]

C12_Witness ==
    /\ CleanPortableExit
    /\ tree = TreeRepo
    /\ "dist/**" \in Range(allExcludePatterns)
    /\ "dist" \in DOMAIN dest
    /\ "dist/y.js" \notin DOMAIN dest
    /\ "foo/dist/x.js" \in DOMAIN dest
    /\ dest["foo/dist/x.js"] = FileNode("nested")

\* C13 as stated: each pattern that ends in "/**" has the pattern without
\* that ending in dirExcludes, and a pattern that contains node_modules,
\* dist/, build/ or .git puts the bare name in dirExcludes; the plan for
\* <<"node_modules/**">> has node_modules in dirExcludes.
C13_DirExcludesLiteral ==
    \A c \in 1..Len(native) :
        LET patterns == native[c].excludePatterns
            dirs == Range(native[c].plan.dirExcludes)
        IN  /\ \A k \in 1..Len(patterns) :
                  EndsWith(patterns[k], "/**") =>
                      Slice(patterns[k], 1, Len(patterns[k]) - 3) \in dirs
            /\ \A k \in 1..Len(patterns) :
                  /\ Includes(patterns[k], "node_modules") => "node_modules" \in dirs
                  /\ Includes(patterns[k], "dist/") => "dist" \in dirs
                  /\ Includes(patterns[k], "build/") => "build" \in dirs
                  /\ Includes(patterns[k], ".git") => ".git" \in dirs
            /\ patterns = <<"node_modules/**">> => "node_modules" \in dirs

\* C13, amended: each pattern that ends in "/**" has the pattern without
\* that ending, its backslashes written as "/", in dirExcludes; the rest as
\* stated.
C13_DirExcludesNormalized ==
    \A c \in 1..Len(native) :
        LET patterns == native[c].excludePatterns
            dirs == Range(native[c].plan.dirExcludes)
        IN  /\ \A k \in 1..Len(patterns) :
                  EndsWith(patterns[k], "/**") =>
                      ReplaceAll(Slice(patterns[k], 1, Len(patterns[k]) - 3),
                                 "\\", "/") \in dirs
            /\ \A k \in 1..Len(patterns) :
                  /\ Includes(patterns[k], "node_modules") => "node_modules" \in dirs
                  /\ Includes(patterns[k], "dist/") => "dist" \in dirs
                  /\ Includes(patterns[k], "build/") => "build" \in dirs
                  /\ Includes(patterns[k], ".git") => ".git" \in dirs
            /\ patterns = <<"node_modules/**">> => "node_modules" \in dirs

C13_Witness ==
    /\ Len(native) = 1
    /\ native[1].excludePatterns = <<"node_modules/**">>
    /\ native[1].plan.dirExcludes = <<"node_modules">>
    /\ native[1].plan.fileExcludes = <<>>

\* a single name: not empty, no separator and no wildcard in it
SingleName(n) ==
    /\ n # ""
    /\ ~Includes(n, "/")
    /\ ~Includes(n, "\\")
    /\ ~Includes(n, "*")

\* C17: for a pattern that is a single name followed by "/", the plan has
\* the name without the "/" in dirExcludes, and no entry of dirExcludes ends
\* in a path separator.
C17_TrailingSlashStripped ==
    \A c \in 1..Len(native) :
        LET patterns == native[c].excludePatterns
            dirs == Range(native[c].plan.dirExcludes)
        IN  \A k \in 1..Len(patterns) :
               LET name == Slice(patterns[k], 1, Len(patterns[k]) - 1)
               IN  (EndsWith(patterns[k], "/") /\ SingleName(name)) =>
                      /\ name \in dirs
                      /\ \A d \in dirs : ~EndsWith(d, "/") /\ ~EndsWith(d, "\\")

\* the empty plan
NoPlan == [dirExcludes |-> <<>>, fileExcludes |-> <<>>]

\* C19: the native plan leaves out every entry shouldExclude excludes, so
\* that a native run that copied has copied no entry the portable copy
\* would skip, and every pattern adds to dirExcludes or to fileExcludes.
C19_PlanCoversMatcher ==
    \A c \in 1..Len(native) :
        LET patterns == native[c].excludePatterns
            plan == native[c].plan
        IN  /\ \A k \in 1..Len(tree) :
                  shouldExclude(tree[k].path, patterns) =>
                      NativeLeavesOut(tree[k], plan)
            /\ NativeCopied(native[c].outcome) =>
                  \A q \in DOMAIN dest \ {""} : ~shouldExclude(q, patterns)
            /\ \A k \in 1..Len(patterns) :
                  RobocopyStep(NoPlan, patterns[k]) # NoPlan

\* C15: when the batched copy completes every filtered entry has been
\* attempted once and copiedCount is the number of entries whose copy ended
\* without an error, whatever the interleaving of the tasks; at every state
\* on the way 0 <= copiedCount <= the number of settled tasks.
C15_CountersExact ==
    (inputKind = "dir" /\ Len(nodeCalls) > 0) =>
        LET ok == {k \in DOMAIN tasks : tasks[k] = "ok"}
            settled == {k \in DOMAIN tasks : Settled(tasks[k])}
        IN  /\ copiedCount = Cardinality(ok)
            /\ 0 <= copiedCount
            /\ copiedCount <= Cardinality(settled)
            /\ DOMAIN tasks \subseteq 1..Len(filteredEntries)
            /\ (pc = "exit" /\ outcome.status = "ok") =>
                  /\ DOMAIN tasks = 1..Len(filteredEntries)
                  /\ settled = DOMAIN tasks

C15_Witness ==
    /\ pc = "exit"
    /\ outcome.status = "ok"
    /\ tree = TreeTest
    /\ Len(filteredEntries) > BATCH_SIZE
    /\ \E k \in DOMAIN tasks : tasks[k] = "caught"
    /\ copiedCount = Len(filteredEntries) - 1

\* the steps of Start -> Validate -> (NativeAttempt)? -> (portable copy)?
\* -> Done or Fatal, and the next invocation after Done
PathSteps ==
    { <<"cli", "access">>, <<"access", "ensureDest">>, <<"access", "exit">>,
      <<"ensureDest", "robocopy">>, <<"ensureDest", "node">>,
      <<"ensureDest", "exit">>, <<"robocopy", "node">>, <<"robocopy", "exit">>,
      <<"node", "copyFile">>, <<"node", "batch">>, <<"node", "exit">>,
      <<"copyFile", "exit">>, <<"batch", "batch">>, <<"batch", "exit">>,
      <<"exit", "cli">> }

PathStep == <<pc, pc'>> \in PathSteps

\* the strategy has been chosen: copyFiles has passed line 108
StrategyChosen ==
    \/ pc \in {"robocopy", "node", "copyFile", "batch"}
    \/ Len(native) > 0
    \/ Len(nodeCalls) > 0

\* C16: every run follows Start -> Validate -> (NativeAttempt)? ->
\* (portable copy)? -> Done or Fatal: the native accelerator is attempted if
\* and only if it is available and the input is a directory, at most once,
\* and only after the source was validated and the destination ensured; the
\* portable copy runs at most once and never after a native attempt that
\* succeeded.
C16_StateMachinePath ==
    /\ [](/\ Len(native) <= 1
          /\ Len(nodeCalls) <= 1
          /\ StrategyChosen =>
                /\ inputKind # "missing"
                /\ "" \in DOMAIN dest
                /\ dest[""].kind = "dir"
          /\ (StrategyChosen /\ pc # "robocopy") =>
                (Len(native) = 1 <=> (isWindows /\ inputKind = "dir"))
          /\ pc = "robocopy" =>
                /\ isWindows /\ inputKind = "dir"
                /\ native = <<>> /\ nodeCalls = <<>>
          /\ (Len(native) = 1 /\ native[1].returned) =>
                /\ pc = "exit"
                /\ nodeCalls = <<>>
                /\ outcome.status = "ok")
    /\ [][PathStep]_vars

C16_Witness ==
    /\ pc = "exit"
    /\ tree = TreeTest
    /\ Len(native) = 1
    /\ native[1].returned
    /\ nodeCalls = <<>>
    /\ outcome.status = "ok"
    /\ "src/code.ts" \in DOMAIN dest

\* C18: after a portable directory copy into an empty destination no path
\* that shouldExclude excludes under the effective pattern set exists in the
\* destination, an excluded directory above a copied entry included.
C18_NoExcludedPathInDest ==
    (CleanPortableExit /\ inputKind = "dir" /\ DOMAIN prev.dest \subseteq {""}) =>
        \A p \in DOMAIN dest \ {""} : ~shouldExclude(p, allExcludePatterns)

\* C20: when copyFiles has settled, with a result or with an error, and so
\* before the action calls process.exit(1), no per-entry task of the batched
\* copy is in flight: every task that was started has settled.
C20_NoTaskInFlightAtExit ==
    pc = "exit" => InFlight = {}

\* a step of the run as it is taken when the verbose flag has the other
\* value; the stdio option of execSync is left aside
FlippedStep ==
    \/ CliAction
    \/ Access
    \/ EnsureDest
    \/ TryRobocopy(~verbose)
    \/ StartNode(~verbose)
    \/ CopySingleFile
    \/ \E k \in DOMAIN tasks : TaskEnsureParent(k)
    \/ \E k \in DOMAIN tasks : TaskStat(k)
    \/ \E k \in DOMAIN tasks : TaskOp(k)
    \/ BatchSettle
    \/ Rerun

\* C14: two runs that differ only in the verbose flag and meet the same
\* outcomes of their I/O operations and of the native process take the same
\* path and end with the same destination and result: every step a run
\* takes, with its effect on everything but the stdio option, is a step of
\* the run with the flag flipped, and the flag is never written.
C14_VerboseNonInterference ==
    /\ [][FlippedStep]_vars
    /\ [][verbose' = verbose]_vars

C14_Witness ==
    /\ verbose
    /\ stdio = "inherit"
    /\ pc = "exit"
    /\ outcome.status = "ok"
    /\ Len(native) = 1
    /\ ~native[1].returned
    /\ Len(nodeCalls) = 1
    /\ tree = TreeTest
    /\ "file1.txt" \in DOMAIN dest

=============================================================================
